---- MODULE Spec2Model ----
(***************************************************************************)
(* Model of the market-backend ranking and caching engine:                 *)
(*   services/ranking_service.py        (FII ranking, TTL cache)           *)
(*   services/ranking_acoes_service.py  (BR shares report, TTL cache)      *)
(*   services/ranking_usa_service.py    (US report, daily flag + store)    *)
(*   main.py                            (economic calendar, daily flag)    *)
(*                                                                         *)
(* Floating point columns are modelled as exact rationals [n, d] with      *)
(* d >= 0; d = 0 encodes the IEEE results of a division by zero:           *)
(* 0/0 = NaN, x/0 = +-inf.  Ranks of pandas' default method ("average")    *)
(* are half-integers and are rationals here as well.                       *)
(***************************************************************************)
EXTENDS Integers, Sequences, FiniteSets, TLC

VARIABLES
    now,        \* time.time(), in seconds since local midnight of day 0
    endpoint,   \* the endpoint this run exercises (the endpoints share no state)
    dbUp,       \* db is not None: firestore.client() succeeded at import
    cacheAcoes, \* ranking_acoes_service._cache_acoes
    cacheData,  \* ranking_service._cache_data
    usaMem,     \* ranking_usa_service._cache_usa_full
    usaFlag,    \* system_control/ranking_usa_sync .last_checked_date (-1: no document)
    usaStore,   \* the documents of collection ranking_usa
    calFlag,    \* system_control/calendar_sync .last_checked_date (-1: no document)
    calStore,   \* the documents of collection economic_calendar
    table,      \* the snapshot the last call worked on (the DataFrame df)
    filtered,   \* its rows that passed the eligibility filter
    df,         \* the scored frame of the last call, all columns
    ret,        \* what the last call returned
    last,       \* log of the last call: what it found on entry and what it did
    prev,       \* log of the call before (kept for the US report only)
    genLog,     \* the day (today_str) of every completed generation of the US report
    loop,       \* a batched write loop in progress: its position, counter and commits
    thr         \* the requests of the US report that run concurrently, one per thread

cacheVars == <<cacheAcoes, cacheData>>

usaVars == <<usaMem, usaFlag, usaStore, genLog>>

calVars == <<calFlag, calStore>>

callVars == <<table, filtered, df, ret, last, prev>>

workVars == <<loop, thr>>

vars == <<now, endpoint, dbUp, cacheVars, usaVars, calVars, callVars, workVars>>

----------------------------------------------------------------------------
(* Bounds                                                                  *)

\* rows of a provider snapshot in the scoring runs
MaxAssets == 3

\* clock ticks per cache timeout (a tick is timeout / TicksPerTimeout seconds)
TicksPerTimeout == 2

\* the clock stops after this many ticks
MaxTicks == 4

\* completed generations of the US report that are logged
MaxGens == 3

\* items of a calendar API payload
MaxItems == 1

\* full batches of a batched write loop
MaxBatches == 2

\* requests of the US report in flight at once
MaxThreads == 2

----------------------------------------------------------------------------
(* Rational arithmetic with the IEEE special values                        *)

Abs(k) == IF k < 0 THEN -k ELSE k

Sgn(k) == IF k > 0 THEN 1 ELSE IF k < 0 THEN -1 ELSE 0

RECURSIVE GCD(_, _)
GCD(a, b) == IF b = 0 THEN a ELSE GCD(b, a % b)

\* the rational n/d (d >= 0) in lowest terms, so that equal values are equal records
R(n, d) ==
    IF d = 0 THEN [n |-> Sgn(n), d |-> 0]
    ELSE LET g == GCD(Abs(n), d) IN [n |-> n \div g, d |-> d \div g]

Int2R(k) == R(k, 1)

NaN == R(0, 0)

IsNaN(x) == x.d = 0 /\ x.n = 0

IsInf(x) == x.d = 0 /\ x.n # 0

IsFinite(x) == x.d > 0

\* a < b for non-NaN values; +inf is above and -inf below every finite value
RLt(a, b) ==
    IF a.d = 0 \/ b.d = 0
    THEN IF a.d = 0 /\ b.d = 0 THEN a.n < 0 /\ b.n > 0
         ELSE IF a.d = 0 THEN a.n < 0 ELSE b.n > 0
    ELSE a.n * b.d < b.n * a.d

REq(a, b) ==
    IF a.d = 0 \/ b.d = 0
    THEN a.d = 0 /\ b.d = 0 /\ Sgn(a.n) = Sgn(b.n) /\ a.n # 0
    ELSE a.n * b.d = b.n * a.d

RLe(a, b) == RLt(a, b) \/ REq(a, b)

RAdd(a, b) ==
    IF IsNaN(a) \/ IsNaN(b) THEN NaN
    ELSE IF a.d = 0 /\ b.d = 0
         THEN IF Sgn(a.n) = Sgn(b.n) THEN R(Sgn(a.n), 0) ELSE NaN
    ELSE IF a.d = 0 THEN R(Sgn(a.n), 0)
    ELSE IF b.d = 0 THEN R(Sgn(b.n), 0)
    ELSE R(a.n * b.d + b.n * a.d, a.d * b.d)

RNeg(a) == R(-a.n, a.d)

RSub(a, b) == RAdd(a, RNeg(b))

RMul(a, b) ==
    IF IsNaN(a) \/ IsNaN(b) THEN NaN
    ELSE IF a.d = 0 \/ b.d = 0
         THEN IF a.n = 0 \/ b.n = 0 THEN NaN ELSE R(Sgn(a.n) * Sgn(b.n), 0)
    ELSE R(a.n * b.n, a.d * b.d)

\* float division: x/0 is +-inf, 0/0 is NaN, nothing raises (vectorised pandas)
RDiv(a, b) ==
    IF IsNaN(a) \/ IsNaN(b) THEN NaN
    ELSE IF b.d = 0
         THEN IF a.d = 0 THEN NaN ELSE R(0, 1)
    ELSE IF b.n = 0
         THEN IF a.n = 0 THEN NaN ELSE R(Sgn(a.n), 0)
    ELSE IF a.d = 0 THEN R(Sgn(a.n) * Sgn(b.n), 0)
    ELSE IF b.n > 0 THEN R(a.n * b.d, a.d * b.n)
    ELSE R(-(a.n * b.d), a.d * (-b.n))

\* a rational that is a whole number (a rank of 1.5 is not)
IsInteger(x) == IsFinite(x) /\ x.n % x.d = 0

\* int(x) of a finite value: truncation toward zero (Series.astype(int))
Trunc(x) == IF x.n >= 0 THEN x.n \div x.d ELSE -((-x.n) \div x.d)

----------------------------------------------------------------------------
(* pandas Series.rank                                                      *)

\* a column as a sequence indexed from 1, its values computed once
Series(c) == SubSeq(c, 1, Len(c))

\* "v[j] comes strictly before v[i]" in the ranking order
Before(v, j, i, ascending) ==
    IF ascending THEN RLt(v[j], v[i]) ELSE RLt(v[i], v[j])

Valid(v) == {j \in DOMAIN v : ~IsNaN(v[j])}

\* Series.rank(method='average'): the mean of the positions a tie group
\* occupies; NaN stays NaN and is not counted (na_option='keep')
RankAverage(col, ascending) ==
    LET v == Series(col)
    IN  Series([i \in DOMAIN v |->
            IF IsNaN(v[i]) THEN NaN
            ELSE LET less == Cardinality({j \in Valid(v) : Before(v, j, i, ascending)})
                     same == Cardinality({j \in Valid(v) : REq(v[j], v[i])})
                 IN  R(2 * less + same + 1, 2)])

\* Series.rank(method='dense'): 1 + the number of distinct values before
RankDense(col, ascending) ==
    LET v == Series(col)
    IN  Series([i \in DOMAIN v |->
            IF IsNaN(v[i]) THEN NaN
            ELSE LET firsts == {j \in Valid(v) :
                                   /\ Before(v, j, i, ascending)
                                   /\ \A k \in Valid(v) : k < j => ~REq(v[k], v[j])}
                 IN  Int2R(Cardinality(firsts) + 1)])

\* element-wise sum of two columns
ColAdd(a, b) == Series([i \in DOMAIN a |-> RAdd(a[i], b[i])])

\* (a scaling with the sign flipped, to test the yield weight)
ColScaleNeg(k, a) == Series([i \in DOMAIN a |-> RMul(Int2R(-k), a[i])])

ColScale(k, a) == Series([i \in DOMAIN a |-> RMul(Int2R(k), a[i])])

----------------------------------------------------------------------------
(* services/ranking_acoes_service.py: the BR shares report                 *)

LIQ_MINIMA == 200000

PENALTY == 1000000

\* (sector labels are written without their accents)
SETORES_BARSI_BEST ==
    {"Bancario", "Financeiro", "Energia", "Utilidade Publica", "Petroleo",
     "Saneamento", "Agua", "Seguros", "Previdencia", "Telecomunicacoes", "Telecom"}

\* (no sector penalized, to test SETORES_JOEL_PENALIZADOS)
SetoresSemPenalidade == {}

SETORES_JOEL_PENALIZADOS ==
    {"Financeiro", "Bancario", "Seguros", "Energia", "Utilidade Publica"}

\* LPA derived at fetch time: preco / p_l when p_l > 0, else 0
LpaAcoes(r) == IF r.p_l > 0 THEN RDiv(Int2R(r.preco), Int2R(r.p_l)) ELSE Int2R(0)

\* the three boolean masks applied one after the other
PassaFiltroAcoes(r) == r.liq_media_diaria >= LIQ_MINIMA /\ r.p_l > 0 /\ r.dy > 0

\* (a selection that is not a filter: it drops the first row, to test FiltroAcoes)
DropFirstRow(t) == IF t = <<>> THEN t ELSE Tail(t)

FiltroAcoes(t) == SelectSeq(t, PassaFiltroAcoes)

\* np.where(ev_ebit > 0, 1 / ev_ebit, 0)
EarningYield(x) == IF x > 0 THEN R(1, x) ELSE Int2R(0)

\* (lpa * (8.5 + 2 * cagr) * 4.4) / 22.5 when lpa > 0, else 0
CalcGrahamAcoes(lpa, cagr) ==
    IF RLt(Int2R(0), lpa)
    THEN RDiv(RMul(RMul(lpa, RAdd(R(17, 2), Int2R(2 * cagr))), R(22, 5)), R(45, 2))
    ELSE Int2R(0)

\* (valor_intrinseco - preco) / valor_intrinseco when valor_intrinseco > 0, else -10
MargemSeg(vi, preco) ==
    IF ~IsNaN(vi) /\ RLt(Int2R(0), vi)
    THEN RDiv(RSub(vi, preco), vi)
    ELSE Int2R(-10)

\* (preco_teto / preco) - 1 with preco_teto = preco * dy / divisor; the
\* division is vectorised, so preco = 0 gives 0/0 = NaN, not an exception
UpsideBazin(preco, dy, divisor) ==
    RSub(RDiv(RDiv(RMul(preco, dy), divisor), preco), Int2R(1))

\* (the adjustment with the factor inverted, to test ajuste_setor)
AjusteSetorInvertido(setor, score) ==
    IF setor \in SETORES_BARSI_BEST THEN RMul(score, R(5, 4)) ELSE score

AjusteSetorAcoes(setor, score) ==
    IF setor \in SETORES_BARSI_BEST THEN RMul(score, R(4, 5)) ELSE score

ScoreAcoes(f) ==
    LET I == DOMAIN f
        ey == [i \in I |-> EarningYield(f[i].ev_ebit)]
        rank_ey == RankDense(ey, FALSE)
        rank_roic == RankDense([i \in I |-> Int2R(f[i].roic)], FALSE)
        score_joel == [i \in I |->
            RAdd(RAdd(rank_ey[i], rank_roic[i]),
                 Int2R(IF f[i].setor \in SETORES_JOEL_PENALIZADOS THEN PENALTY ELSE 0))]
        RANKING_JOEL == RankDense(score_joel, TRUE)
        vi == [i \in I |-> CalcGrahamAcoes(f[i].lpa, f[i].cagr_lucros_5a)]
        margem == [i \in I |-> MargemSeg(vi[i], Int2R(f[i].preco))]
        p_vp == [i \in I |-> Int2R(f[i].p_vp)]
        dy == [i \in I |-> Int2R(f[i].dy)]
        score_graham == ColAdd(RankAverage(margem, FALSE), RankAverage(p_vp, TRUE))
        RANKING_GRAHAM == RankAverage(score_graham, TRUE)
        upside == [i \in I |-> UpsideBazin(Int2R(f[i].preco), dy[i], Int2R(6))]
        score_bazin == ColAdd(RankAverage(upside, FALSE), RankAverage(dy, FALSE))
        RANKING_BAZIN == RankAverage(score_bazin, TRUE)
        score_barsi ==
            ColAdd(ColAdd(ColScale(2, RankAverage(dy, FALSE)), RankAverage(p_vp, TRUE)),
                   ColAdd(RankAverage([i \in I |-> Int2R(f[i].roe)], FALSE),
                          RankAverage([i \in I |-> Int2R(f[i].div_liq_patrimonio)], TRUE)))
        ajustado == [i \in I |-> AjusteSetorAcoes(f[i].setor, score_barsi[i])]
        RANKING_BARSI == RankAverage(ajustado, TRUE)
    IN  [i \in I |->
            [ativo |-> f[i].ativo, setor |-> f[i].setor,
             score_joel |-> score_joel[i], RANKING_JOEL |-> RANKING_JOEL[i],
             margem_seg |-> margem[i], score_graham |-> score_graham[i],
             RANKING_GRAHAM |-> RANKING_GRAHAM[i],
             upside_bazin |-> upside[i], score_bazin |-> score_bazin[i],
             RANKING_BAZIN |-> RANKING_BAZIN[i],
             score_barsi |-> ajustado[i], RANKING_BARSI |-> RANKING_BARSI[i]]]

\* the exported columns (the ranks) of one scored row
ExportRow(d) ==
    [ativo |-> d.ativo, setor |-> d.setor,
     RANKING_JOEL |-> d.RANKING_JOEL, RANKING_GRAHAM |-> d.RANKING_GRAHAM,
     RANKING_BAZIN |-> d.RANKING_BAZIN, RANKING_BARSI |-> d.RANKING_BARSI]

Export(d) == [i \in DOMAIN d |-> ExportRow(d[i])]

----------------------------------------------------------------------------
(* services/ranking_usa_service.py: the scoring of the US report           *)

\* the sector labels of the provider in which one of the substrings
\* 'Financial', 'Utilities', 'Energy', 'Insurance', 'Communication' occurs
SETORES_BEST_EN_MATCH ==
    {"Financial Services", "Utilities", "Energy", "Insurance", "Communication Services"}

PassaFiltroUsa(r) == r.dy > 0

\* (a selection that keeps the assets without dividends, to test FiltroUsa)
SemFiltroDividendos(t) == t

FiltroUsa(t) == SelectSeq(t, PassaFiltroUsa)

\* preco / p_vp when p_vp > 0, else 0
Vpa(preco, p_vp) == IF p_vp > 0 THEN RDiv(Int2R(preco), Int2R(p_vp)) ELSE Int2R(0)

\* calc_graham is sqrt(22.5 * lpa * vpa) when lpa > 0 and vpa > 0, else 0, and
\* margem_seg is (vi - preco) / vi = 1 - preco / vi when vi > 0, else -10.
\* The square root is not rational; margem_seg is kept through the increasing
\* map m |-> -(1 - m)^2 (every margin is <= 1 because preco >= 0), which
\* leaves the order and the ties of the column as they are:
\*   vi > 0:  -(preco / vi)^2 = -preco^2 / (22.5 * lpa * vpa)
\*   else:    -(1 - (-10))^2  = -121
MargemSegUsa(lpa, vpa, preco) ==
    IF lpa > 0 /\ RLt(Int2R(0), vpa)
    THEN RNeg(RDiv(Int2R(preco * preco), RMul(RMul(R(45, 2), Int2R(lpa)), vpa)))
    ELSE Int2R(-121)

AjusteSetorUsa(setor, score) ==
    IF setor \in SETORES_BEST_EN_MATCH THEN RMul(score, R(4, 5)) ELSE score

ScoreUsa(f) ==
    LET I == DOMAIN f
        ey == [i \in I |-> EarningYield(f[i].ev_ebit)]
        score_joel == ColAdd(RankAverage(ey, FALSE),
                             RankAverage([i \in I |-> Int2R(f[i].roic)], FALSE))
        RANKING_JOEL == RankAverage(score_joel, TRUE)
        margem == [i \in I |->
            MargemSegUsa(f[i].lpa, Vpa(f[i].preco, f[i].p_vp), f[i].preco)]
        RANKING_GRAHAM == RankAverage(margem, FALSE)
        p_vp == [i \in I |-> Int2R(f[i].p_vp)]
        dy == [i \in I |-> Int2R(f[i].dy)]
        upside == [i \in I |-> UpsideBazin(Int2R(f[i].preco), dy[i], R(1, 25))]
        score_bazin == ColAdd(RankAverage(upside, FALSE), RankAverage(dy, FALSE))
        RANKING_BAZIN == RankAverage(score_bazin, TRUE)
        score_barsi ==
            ColAdd(ColAdd(ColScale(2, RankAverage(dy, FALSE)), RankAverage(p_vp, TRUE)),
                   RankAverage([i \in I |-> Int2R(f[i].roe)], FALSE))
        ajustado == [i \in I |-> AjusteSetorUsa(f[i].setor, score_barsi[i])]
        RANKING_BARSI == RankAverage(ajustado, TRUE)
    IN  [i \in I |->
            [ativo |-> f[i].ativo, setor |-> f[i].setor, preco |-> f[i].preco,
             score_joel |-> score_joel[i], RANKING_JOEL |-> RANKING_JOEL[i],
             margem_seg |-> margem[i], score_graham |-> margem[i],
             RANKING_GRAHAM |-> RANKING_GRAHAM[i],
             upside_bazin |-> upside[i], score_bazin |-> score_bazin[i],
             RANKING_BAZIN |-> RANKING_BAZIN[i],
             score_barsi |-> ajustado[i], RANKING_BARSI |-> RANKING_BARSI[i]]]

\* _df_json_safe / _records_json_safe: +-inf becomes NaN, NaN becomes None
\* (None is the NaN record here: the undefined value of the response)
JsonSafe(x) == IF IsFinite(x) THEN x ELSE NaN

ExportRowUsa(d) ==
    [ativo |-> d.ativo, setor |-> d.setor, preco |-> d.preco,
     RANKING_JOEL |-> JsonSafe(d.RANKING_JOEL),
     RANKING_GRAHAM |-> JsonSafe(d.RANKING_GRAHAM),
     RANKING_BAZIN |-> JsonSafe(d.RANKING_BAZIN),
     RANKING_BARSI |-> JsonSafe(d.RANKING_BARSI)]

ExportUsa(d) == [i \in DOMAIN d |-> ExportRowUsa(d[i])]

----------------------------------------------------------------------------
(* services/ranking_service.py: the FII ranking                            *)

\* the segment labels in which "desenvolvimento" occurs, whatever the case
SETORES_DESENVOLVIMENTO == {"Desenvolvimento", "Hibrido/desenvolvimento"}

\* (the masks without the segment test, to test PassaFiltroFii)
PassaSemSetor(r) == r.liquidez >= LIQ_MINIMA /\ r.pvp > 0 /\ r.dy > 0

PassaFiltroFii(r) ==
    /\ r.liquidez >= LIQ_MINIMA
    /\ r.pvp > 0
    /\ r.dy > 0
    /\ r.setor \notin SETORES_DESENVOLVIMENTO

\* (a selection that rejects nothing, to test FiltroFii)
KeepAllRows(t) == t

FiltroFii(t) == SelectSeq(t, PassaFiltroFii)

\* np.log1p(liquidez) in thousandths, for the liquidity values of the model
Log1pMilli(x) ==
    CASE x = 200000 -> 12206
      [] x = 500000 -> 13122
      [] OTHER -> 0

\* (dy*25 + 0*25)*0.5 + ((1 - pvp)*15 + (1/(1 + 0))*15)*0.3 + (log1p(liq)*10)*0.2
SmartValor(r) ==
    RAdd(RAdd(RMul(Int2R(r.dy * 25), R(1, 2)),
              RMul(Int2R((1 - r.pvp) * 15 + 15), R(3, 10))),
         RMul(R(Log1pMilli(r.liquidez) * 10, 1000), R(1, 5)))

\* positions of 1..n ordered by key, ties in frame order
RECURSIVE SortIdx(_, _)
SortIdx(key, todo) ==
    IF todo = {} THEN <<>>
    ELSE LET m == CHOOSE i \in todo :
                     \A j \in todo : key[i] < key[j] \/ (key[i] = key[j] /\ i <= j)
         IN  <<m>> \o SortIdx(key, todo \ {m})

ScoreFii(f, sort_by) ==
    LET I == DOMAIN f
        rank_pvp == RankAverage([i \in I |-> Int2R(f[i].pvp)], TRUE)
        rank_dy == RankAverage([i \in I |-> Int2R(f[i].dy)], FALSE)
        shank_valor == ColAdd(rank_pvp, rank_dy)
        shank_rank == RankAverage(shank_valor, TRUE)
        smart_valor == [i \in I |-> SmartValor(f[i])]
        smart_rank == RankAverage(smart_valor, FALSE)
        \* astype(int) truncates the average ranks
        shank_pos == [i \in I |-> Trunc(shank_rank[i])]
        smart_pos == [i \in I |-> Trunc(smart_rank[i])]
        \* sort_values runs on the untruncated rank
        key == [i \in I |-> IF sort_by = "smart" THEN smart_rank[i].n * (2 \div smart_rank[i].d)
                                                  ELSE shank_rank[i].n * (2 \div shank_rank[i].d)]
        ord == SortIdx(key, I)
    IN  [k \in I |->
            [ticker |-> f[ord[k]].ticker, setor |-> f[ord[k]].setor,
             dy |-> f[ord[k]].dy, pvp |-> f[ord[k]].pvp, liquidez |-> f[ord[k]].liquidez,
             shank_rank |-> shank_rank[ord[k]], shank_valor |-> shank_valor[ord[k]],
             shank_pos |-> shank_pos[ord[k]],
             smart_rank |-> smart_rank[ord[k]], smart_valor |-> smart_valor[ord[k]],
             smart_pos |-> smart_pos[ord[k]]]]

ExportRowFii(d) ==
    [ticker |-> d.ticker, setor |-> d.setor, dy |-> d.dy, pvp |-> d.pvp,
     liquidez |-> d.liquidez, shank_pos |-> d.shank_pos, smart_pos |-> d.smart_pos]

ExportFii(d) == [i \in DOMAIN d |-> ExportRowFii(d[i])]

----------------------------------------------------------------------------
(* Time, and the log of a call                                             *)

CACHE_TIMEOUT_ACOES == 3600

CACHE_TIMEOUT_FII == 3600

CACHE_TIMEOUT_USA == 86400

\* datetime.now(tz_sp).strftime("%Y-%m-%d"): the local calendar day
TodaySpStr(t) == t \div 86400

\* the freshness window of the endpoint's cache: a TTL or the calendar day
Timeout(ep) ==
    CASE ep = "acoes" -> CACHE_TIMEOUT_ACOES
      [] ep = "fii" -> CACHE_TIMEOUT_FII
      [] OTHER -> CACHE_TIMEOUT_USA

Step(ep) == Timeout(ep) \div TicksPerTimeout

MaxTime(ep) == MaxTicks * Step(ep)

NoCache == [timestamp |-> 0, has |-> FALSE, data |-> <<>>]

NoRet == [kind |-> "none", rows |-> <<>>]

RetList(rows) == [kind |-> "list", rows |-> rows]

RetRaise == [kind |-> "raise", rows |-> <<>>]

\* what a call found on entry (at, day, flagToday, hadToday, prior, snapAt, snap)
\* and what it did (fetched: it called the upstream provider; path; storeReads,
\* storeWrites: the store operations it attempted; storeOk: none of its writes
\* raised; steps: its writes, in program order; checkOk: the read of the flag
\* did not raise)
NoCall ==
    [op |-> "none", at |-> 0, day |-> 0, force |-> FALSE, flagToday |-> FALSE,
     hadToday |-> FALSE, prior |-> <<>>, snapAt |-> -1, snap |-> <<>>,
     fetched |-> FALSE, failed |-> FALSE, path |-> "none",
     storeReads |-> 0, storeWrites |-> 0, storeOk |-> FALSE, steps |-> <<>>,
     checkOk |-> TRUE]

----------------------------------------------------------------------------
(* The snapshots the providers return                                      *)

AcoesBase ==
    [setor |-> "Outros", preco |-> 10, dy |-> 1, p_l |-> 5, p_vp |-> 1, roe |-> 1,
     div_liq_patrimonio |-> 0, ev_ebit |-> 5, roic |-> 1, cagr_lucros_5a |-> 0,
     liq_media_diaria |-> 200000]

\* rows that differ in the inputs of the sector-weighted yield formula
AcoesRowsBarsi ==
    {[AcoesBase EXCEPT !.setor = s, !.dy = x[1], !.p_vp = x[2], !.roe = x[3]] :
        s \in {"Financeiro", "Outros"},
        x \in {<<1, 2, 1>>, <<2, 1, 2>>, <<2, 2, 1>>, <<1, 1, 2>>}}
    \cup {[AcoesBase EXCEPT !.div_liq_patrimonio = 1],
          [AcoesBase EXCEPT !.div_liq_patrimonio = 1, !.dy = 2, !.p_vp = 2]}

\* rows with a zero price, price-to-book or EV/EBIT
AcoesRowsZero ==
    {[AcoesBase EXCEPT !.preco = a, !.p_vp = b, !.ev_ebit = c] :
        a \in {0, 10}, b \in {0, 1}, c \in {0, 5}}

\* rows on both sides of every eligibility threshold
AcoesRowsFiltro ==
    {AcoesBase, [AcoesBase EXCEPT !.dy = 2],
     [AcoesBase EXCEPT !.liq_media_diaria = 199999], [AcoesBase EXCEPT !.p_l = 0],
     [AcoesBase EXCEPT !.p_l = -5], [AcoesBase EXCEPT !.dy = 0]}

\* rows that differ in the inputs of the value+quality formula
AcoesRowsJoel ==
    {[AcoesBase EXCEPT !.setor = s, !.ev_ebit = a, !.roic = b] :
        s \in {"Financeiro", "Outros"}, a \in {2, 5}, b \in {1, 2}}

\* rows that differ in the inputs of the intrinsic-value formula
AcoesRowsGraham ==
    {[AcoesBase EXCEPT !.p_l = a, !.cagr_lucros_5a = b, !.p_vp = c] :
        a \in {1, 20}, b \in {-5, 0}, c \in {1, 2}}

AcoesFamilies ==
    {AcoesRowsBarsi, AcoesRowsZero, AcoesRowsFiltro, AcoesRowsJoel, AcoesRowsGraham}

UsaBase ==
    [setor |-> "Technology", preco |-> 10, dy |-> 1, p_l |-> 5, p_vp |-> 1, roe |-> 1,
     ev_ebit |-> 5, roic |-> 1, lpa |-> 2]

UsaRowsBarsi ==
    {[UsaBase EXCEPT !.setor = s, !.dy = x[1], !.p_vp = x[2], !.roe = x[3]] :
        s \in {"Financial Services", "Technology"},
        x \in {<<1, 2, 1>>, <<2, 1, 2>>, <<2, 2, 1>>, <<1, 1, 2>>}}

UsaRowsZero ==
    {[UsaBase EXCEPT !.preco = a, !.p_vp = b, !.ev_ebit = c] :
        a \in {0, 10}, b \in {0, 1}, c \in {0, 5}}
    \cup {[UsaBase EXCEPT !.dy = 0]}

UsaRowsGraham ==
    {[UsaBase EXCEPT !.preco = a, !.lpa = b, !.p_vp = c] :
        a \in {10, 100}, b \in {-1, 2}, c \in {0, 30}}

UsaFamilies == {UsaRowsBarsi, UsaRowsZero, UsaRowsGraham}

FiiBase == [setor |-> "Logistica", dy |-> 1, pvp |-> 1, liquidez |-> 200000]

FiiRowsFiltro ==
    {FiiBase, [FiiBase EXCEPT !.dy = 2], [FiiBase EXCEPT !.setor = "Desenvolvimento"],
     [FiiBase EXCEPT !.dy = 0], [FiiBase EXCEPT !.pvp = 0],
     [FiiBase EXCEPT !.liquidez = 199999]}

FiiRowsRank ==
    {[FiiBase EXCEPT !.dy = a, !.pvp = b, !.liquidez = c] :
        a \in {1, 2}, b \in {1, 2}, c \in {200000, 500000}}

FiiFamilies == {FiiRowsFiltro, FiiRowsRank}

\* a total order on rows, to list each snapshot once (the scoring does not
\* depend on the order of the rows)
RowTuple(r) ==
    LET D == DOMAIN r
        f(name, dflt) == IF name \in D THEN r[name] ELSE dflt
        sec == CASE r.setor \in {"Outros", "Technology", "Logistica"} -> 0
                 [] r.setor = "Saneamento" -> 1
                 [] OTHER -> 2
    IN  <<sec, f("preco", 0), r.dy, f("p_l", 0), f("p_vp", 0), f("pvp", 0), f("roe", 0),
          f("div_liq_patrimonio", 0), f("ev_ebit", 0), f("roic", 0),
          f("cagr_lucros_5a", 0), f("lpa", 0), f("liq_media_diaria", 0),
          f("liquidez", 0)>>

RECURSIVE LexLe(_, _)
LexLe(a, b) ==
    IF a = <<>> THEN TRUE
    ELSE IF Head(a) # Head(b) THEN Head(a) < Head(b)
    ELSE LexLe(Tail(a), Tail(b))

\* the snapshots of exactly n rows drawn from rows, in non-decreasing order
RECURSIVE SnapshotsOfLen(_, _)
SnapshotsOfLen(rows, n) ==
    IF n = 0 THEN {<<>>}
    ELSE UNION {{Append(t, r) :
                    r \in {x \in rows : t = <<>> \/
                                LexLe(RowTuple(t[Len(t)]), RowTuple(x))}} :
                t \in SnapshotsOfLen(rows, n - 1)}

Snapshots(families) ==
    UNION {SnapshotsOfLen(fam, n) : fam \in families, n \in 0..MaxAssets}

\* the ticker column: row i of a snapshot is asset i
WithTicker(t, col) == [i \in DOMAIN t |-> (col :> i) @@ t[i]]

----------------------------------------------------------------------------
(* The TTL caches: fetch_fundamentus_acoes and fetch_fundamentus_data      *)

\* a provider response: the table it parsed, or a failure (an exception or a
\* status code other than 200)
Ok(rows) == [ok |-> TRUE, rows |-> rows]

Failure == [ok |-> FALSE, rows |-> <<>>]

\* the cleaning of the fetched table: the derived LPA column
CleanAcoes(rows) == [i \in DOMAIN rows |-> ("lpa" :> LpaAcoes(rows[i])) @@ rows[i]]

\* (a freshness test with half the window, to test CacheFresh)
CacheFreshHalfTtl(c, t, timeout) == c.has /\ 2 * (t - c.timestamp) < timeout

\* (a cache that is never fresh, to test CacheFresh)
CacheNeverFresh(c, t, timeout) == FALSE

\* data is not None and (time.time() - timestamp < CACHE_TIMEOUT)
CacheFresh(c, t, timeout) == c.has /\ t - c.timestamp < timeout

\* (a fetch whose failure forgets the cached table, to test
\* FetchFundamentusAcoes)
FetchAcoesNoFallback(c, t, resp, dur) ==
    IF CacheFresh(c, t, CACHE_TIMEOUT_ACOES)
    THEN [cache |-> c, data |-> c.data, fetched |-> FALSE, failed |-> FALSE,
          raised |-> FALSE, t |-> t]
    ELSE IF resp.ok
    THEN [cache |-> [timestamp |-> t + dur, has |-> TRUE, data |-> CleanAcoes(resp.rows)],
          data |-> CleanAcoes(resp.rows),
          fetched |-> TRUE, failed |-> FALSE, raised |-> FALSE, t |-> t + dur]
    ELSE [cache |-> c, data |-> <<>>,
          fetched |-> TRUE, failed |-> TRUE, raised |-> FALSE, t |-> t + dur]

\* fetch_fundamentus_acoes: the cache c at time t, the provider answering
\* resp after dur seconds.  A failure falls back to the cached table of any
\* age, or to an empty DataFrame.
FetchFundamentusAcoes(c, t, resp, dur) ==
    IF CacheFresh(c, t, CACHE_TIMEOUT_ACOES)
    THEN [cache |-> c, data |-> c.data, fetched |-> FALSE, failed |-> FALSE,
          raised |-> FALSE, t |-> t]
    ELSE IF resp.ok
    THEN LET d == CleanAcoes(resp.rows)
         IN  [cache |-> [timestamp |-> t + dur, has |-> TRUE, data |-> d], data |-> d,
              fetched |-> TRUE, failed |-> FALSE, raised |-> FALSE, t |-> t + dur]
    ELSE [cache |-> c, data |-> IF c.has THEN c.data ELSE <<>>,
          fetched |-> TRUE, failed |-> TRUE, raised |-> FALSE, t |-> t + dur]

\* fetch_fundamentus_data: the same, but a failure with nothing cached re-raises
FetchFundamentusData(c, t, resp, dur) ==
    IF CacheFresh(c, t, CACHE_TIMEOUT_FII)
    THEN [cache |-> c, data |-> c.data, fetched |-> FALSE, failed |-> FALSE,
          raised |-> FALSE, t |-> t]
    ELSE IF resp.ok
    THEN [cache |-> [timestamp |-> t + dur, has |-> TRUE, data |-> resp.rows],
          data |-> resp.rows, fetched |-> TRUE, failed |-> FALSE, raised |-> FALSE,
          t |-> t + dur]
    ELSE [cache |-> c, data |-> c.data,
          fetched |-> TRUE, failed |-> TRUE, raised |-> ~c.has, t |-> t + dur]

LogTtl(op, c, f) ==
    [NoCall EXCEPT !.op = op, !.at = now, !.day = TodaySpStr(now),
                   !.snapAt = IF c.has THEN c.timestamp ELSE -1, !.snap = c.data,
                   !.fetched = f.fetched, !.failed = f.failed,
                   !.path = IF f.raised THEN "raise"
                            ELSE IF ~f.fetched THEN "cache"
                            ELSE IF f.failed THEN "fallback" ELSE "fetch"]

\* get_relatorio_geral_acoes with the provider answering resp after dur seconds
RelatorioGeralAcoes(resp, dur) ==
    \E f \in {FetchFundamentusAcoes(cacheAcoes, now, resp, dur)} :
        /\ f.t <= MaxTime("acoes")
        /\ cacheAcoes' = f.cache
        /\ now' = f.t
        /\ table' = f.data
        /\ filtered' = FiltroAcoes(table')
        /\ df' = ScoreAcoes(filtered')
        /\ ret' = RetList(Export(df'))
        /\ last' = LogTtl("acoes", cacheAcoes, f)
        /\ UNCHANGED <<endpoint, dbUp, workVars, cacheData, usaVars, calVars, prev>>

\* a request served within the TTL: no provider is involved
AcoesHit ==
    /\ endpoint = "acoes"
    /\ CacheFresh(cacheAcoes, now, CACHE_TIMEOUT_ACOES)
    /\ RelatorioGeralAcoes(Failure, 0)

\* a request that goes to the provider
AcoesMiss(resp, dur) ==
    /\ endpoint = "acoes"
    /\ ~CacheFresh(cacheAcoes, now, CACHE_TIMEOUT_ACOES)
    /\ RelatorioGeralAcoes(resp, dur)

\* calculate_ranking(sort_by) with the provider answering resp after dur seconds
CalculateRanking(sort_by, resp, dur) ==
    \E f \in {FetchFundamentusData(cacheData, now, resp, dur)} :
        /\ f.t <= MaxTime("fii")
        /\ cacheData' = f.cache
        /\ now' = f.t
        /\ last' = LogTtl("fii", cacheData, f)
        /\ IF f.raised
           THEN /\ ret' = RetRaise
                /\ UNCHANGED <<table, filtered, df>>
           ELSE /\ table' = f.data
                /\ filtered' = FiltroFii(table')
                /\ df' = ScoreFii(filtered', sort_by)
                /\ ret' = RetList(ExportFii(df'))
        /\ UNCHANGED <<endpoint, dbUp, workVars, cacheAcoes, usaVars, calVars, prev>>

FiiHit(sort_by) ==
    /\ endpoint = "fii"
    /\ CacheFresh(cacheData, now, CACHE_TIMEOUT_FII)
    /\ CalculateRanking(sort_by, Failure, 0)

FiiMiss(sort_by, resp, dur) ==
    /\ endpoint = "fii"
    /\ ~CacheFresh(cacheData, now, CACHE_TIMEOUT_FII)
    /\ CalculateRanking(sort_by, resp, dur)

\* time passes between two requests
Tick ==
    /\ now + Step(endpoint) <= MaxTime(endpoint)
    /\ now' = now + Step(endpoint)
    /\ UNCHANGED <<endpoint, dbUp, workVars, cacheVars, usaVars, calVars, callVars>>

----------------------------------------------------------------------------
(* services/ranking_usa_service.py: the daily cache in Firestore           *)

NoFlag == -1

BATCH_LIMIT == 400

\* the batch.commit() calls of a loop over n operations
NumCommits(n) == (n + BATCH_LIMIT - 1) \div BATCH_LIMIT

\* the operations that reached the store when only the first k commits went
\* through (k = NumCommits(n): no store error)
Committed(n, k) == IF k * BATCH_LIMIT >= n THEN n ELSE k * BATCH_LIMIT

\* the documents of a set in stream order (by date, then by asset), found by
\* repeated selection of the least
RECURSIVE DocSeqBySelection(_)
DocSeqBySelection(docs) ==
    IF docs = {} THEN <<>>
    ELSE LET m == CHOOSE x \in docs :
                     \A y \in docs : x.date < y.date \/
                                      (x.date = y.date /\ x.rec.ativo <= y.rec.ativo)
         IN  <<m>> \o DocSeqBySelection(docs \ {m})

\* the same order found by looking up each asset number in turn, date by date
\* (a document id "<date>_<ativo>" names one document)
RECURSIVE DocSeqByKey(_, _)
DocSeqByKey(docs, dates) ==
    IF dates = {} THEN <<>>
    ELSE LET d == CHOOSE x \in dates : \A y \in dates : x <= y
             ofDay == {x \in docs : x.date = d}
             ids == {x.rec.ativo : x \in ofDay}
             Has(a) == a \in ids
             sorted == SelectSeq([a \in 1..(BATCH_LIMIT + 1) |-> a], Has)
         IN  Series([i \in DOMAIN sorted |->
                        CHOOSE x \in ofDay : x.rec.ativo = sorted[i]])
             \o DocSeqByKey(docs, dates \ {d})

\* the documents of a set in stream order; the two ways give the same
\* sequence, the second is the faster one for a full batch of documents
DocSeq(docs) ==
    IF Cardinality(docs) <= MaxAssets + 1
    THEN DocSeqBySelection(docs)
    ELSE DocSeqByKey(docs, {x.date : x \in docs})

Prefix(q, n) == [i \in 1..n |-> q[i]]

Range(q) == {q[i] : i \in DOMAIN q}

\* check_daily_log: False without a store or on a store error
CheckDailyLog(flag, today, ok) == dbUp /\ ok /\ flag = today

\* load_ranking_from_db: the records dated today, sorted by asset, without
\* their date; [] without a store or on a store error
LoadRankingFromDb(store, today, ok) ==
    IF dbUp /\ ok
    THEN LET q == DocSeq({x \in store : x.date = today})
         IN  [i \in DOMAIN q |-> q[i].rec]
    ELSE <<>>

\* (a purge that deletes nothing, to test DeleteOldRanking)
KeepOldRanking(store, today, k) == store

\* delete_old_ranking: deletes the documents of every other date, in batches;
\* a store error (after k commits) is caught and logged
DeleteOldRanking(store, today, k) ==
    LET old == DocSeq({x \in store : x.date # today})
    IN  store \ Range(Prefix(old, Committed(Len(old), k)))

\* save_ranking_to_db: one document per asset, keyed "<today>_<ativo>", set
\* (overwritten) in batches; a store error (after k commits) is caught
SaveRankingToDb(store, records, today, k) ==
    LET done == Prefix(records, Committed(Len(records), k))
        ids == {done[i].ativo : i \in DOMAIN done}
    IN  {x \in store : ~(x.date = today /\ x.rec.ativo \in ids)}
        \cup {[date |-> today, rec |-> done[i]] : i \in DOMAIN done}

\* update_daily_log: sets the flag unless the store raises
UpdateDailyLog(flag, today, ok) == IF ok THEN today ELSE flag

\* (the path without steps 1 and 2, and without step 2, to test UsaPath)
UsaPathAlwaysFetch(today, okCheck, okLoad) == "fetch"

UsaPathNoMemory(today, okCheck, okLoad) ==
    IF /\ CheckDailyLog(usaFlag, today, okCheck)
       /\ LoadRankingFromDb(usaStore, today, okLoad) # <<>>
    THEN "store"
    ELSE "fetch"

\* the path get_relatorio_geral_usa takes
UsaPath(today, okCheck, okLoad) ==
    IF /\ CheckDailyLog(usaFlag, today, okCheck)
       /\ LoadRankingFromDb(usaStore, today, okLoad) # <<>>
    THEN "store"
    ELSE IF CacheFresh(usaMem, now, CACHE_TIMEOUT_USA) THEN "memory"
    ELSE "fetch"

\* the store reads of steps 1: check_daily_log reads the flag document unless
\* db is None, and load_ranking_from_db queries when the flag says today
UsaStoreReads(today, okCheck) ==
    IF ~dbUp THEN 0
    ELSE IF CheckDailyLog(usaFlag, today, okCheck) THEN 2 ELSE 1

\* step 5: the writes of a generation, in program order
PersistSteps ==
    IF dbUp THEN <<"purge", "save", "flag", "memory">> ELSE <<"memory">>

LogUsa(today, path, failed) ==
    [NoCall EXCEPT !.op = "usa", !.at = now, !.day = today,
                   !.flagToday = dbUp /\ usaFlag = today,
                   !.hadToday = dbUp /\ (\E x \in usaStore : x.date = today),
                   !.prior = LET q == DocSeq({x \in usaStore : x.date # today})
                             IN  [i \in DOMAIN q |-> q[i].rec],
                   !.snapAt = IF usaMem.has THEN usaMem.timestamp ELSE -1,
                   !.snap = usaMem.data,
                   !.fetched = (path \in {"compute", "empty"}),
                   !.failed = failed, !.path = path]

\* step 1: the flag says today and the store has today's records
UsaStoreHit(okCheck, okLoad) ==
    \E today \in {TodaySpStr(now)} :
        /\ endpoint = "usa"
        /\ UsaPath(today, okCheck, okLoad) = "store"
        /\ ret' = RetList(LoadRankingFromDb(usaStore, today, okLoad))
        /\ usaMem' = [timestamp |-> now, has |-> TRUE, data |-> ret'.rows]
        /\ prev' = last
        /\ last' = [LogUsa(today, "store", FALSE) EXCEPT
                        !.storeReads = UsaStoreReads(today, okCheck),
                        !.steps = <<"memory">>]
        /\ UNCHANGED <<now, endpoint, dbUp, workVars, cacheVars, usaFlag, usaStore, genLog,
                       calVars, table, filtered, df>>

\* step 2: the memory cache is younger than CACHE_TIMEOUT
UsaMemoryHit(okCheck, okLoad) ==
    \E today \in {TodaySpStr(now)} :
        /\ endpoint = "usa"
        /\ UsaPath(today, okCheck, okLoad) = "memory"
        /\ ret' = RetList(usaMem.data)
        /\ prev' = last
        /\ last' = [LogUsa(today, "memory", FALSE) EXCEPT
                        !.storeReads = UsaStoreReads(today, okCheck)]
        /\ UNCHANGED <<now, endpoint, dbUp, workVars, cacheVars, usaVars, calVars,
                       table, filtered, df>>

\* a provider table of one asset more than a batch holds, all paying the same
\* dividend, and its scored frame
FullMarket == WithTicker([i \in 1..(BATCH_LIMIT + 1) |-> UsaBase], "ativo")

FullMarketScored == ScoreUsa(FiltroUsa(FullMarket))

\* the scoring of step 4 (the frame of FullMarket is computed once)
ScoreUsaOf(f) == IF f = FullMarket THEN FullMarketScored ELSE ScoreUsa(f)

\* steps 3 to 5: the provider is asked and answers snap (an empty table when
\* it fails: get_all_usa_tickers and fetch_bulk_fundamentals swallow every
\* exception) after dur seconds; kd, ks and okLog are the store's behaviour
\* during delete_old_ranking, save_ranking_to_db and update_daily_log
UsaRecompute(okCheck, okLoad, snap, failed, dur, kd, ks, okLog) ==
    \E today \in {TodaySpStr(now)} :
        /\ endpoint = "usa"
        /\ UsaPath(today, okCheck, okLoad) = "fetch"
        /\ now + dur <= MaxTime("usa")
        /\ now' = now + dur
        /\ table' = snap
        /\ prev' = last
        /\ IF FiltroUsa(snap) = <<>>
           THEN /\ ret' = RetList(<<>>)
                /\ last' = [LogUsa(today, "empty", failed) EXCEPT
                                !.storeReads = UsaStoreReads(today, okCheck)]
                /\ filtered' = IF snap = <<>> THEN filtered ELSE <<>>
                /\ UNCHANGED <<usaVars, df>>
           ELSE /\ Len(genLog) < MaxGens
                /\ filtered' = FiltroUsa(snap)
                /\ df' = ScoreUsaOf(filtered')
                /\ ret' = RetList(ExportUsa(df'))
                /\ usaStore' =
                      IF dbUp
                      THEN SaveRankingToDb(DeleteOldRanking(usaStore, today, kd),
                                           ret'.rows, today, ks)
                      ELSE usaStore
                /\ usaFlag' = IF dbUp THEN UpdateDailyLog(usaFlag, today, okLog)
                                       ELSE usaFlag
                /\ usaMem' = [timestamp |-> now', has |-> TRUE, data |-> ret'.rows]
                /\ genLog' = Append(genLog, today)
                /\ last' = [LogUsa(today, "compute", FALSE) EXCEPT
                      !.storeReads = UsaStoreReads(today, okCheck),
                      !.storeWrites = IF dbUp THEN 3 ELSE 0,
                      !.storeOk = /\ dbUp /\ okLog
                                  /\ kd >= NumCommits(Cardinality(
                                              {x \in usaStore : x.date # today}))
                                  /\ ks >= NumCommits(Len(ret'.rows)),
                      !.steps = PersistSteps]
        /\ UNCHANGED <<endpoint, dbUp, workVars, cacheVars, calVars>>

----------------------------------------------------------------------------
(* main.py: the economic calendar                                          *)

\* what an API item can be: (importance, date), the date as the API sends it
\* ("today": an ISO date of the requested day, "other": of another day,
\* "bad": a date that does not parse)
CalKinds == {<<1, "today">>, <<0, "bad">>, <<-1, "today">>, <<1, "other">>}

\* the payloads of at most n items, their ids increasing
RECURSIVE CalPayloadsUpTo(_)
CalPayloadsUpTo(n) ==
    IF n = 0 THEN {<<>>}
    ELSE LET shorter == CalPayloadsUpTo(n - 1)
         IN  shorter \cup
             {Append(q, [id |-> n, importance |-> k[1], date |-> k[2]]) :
                 q \in shorter, k \in CalKinds}

CalPayloads == CalPayloadsUpTo(MaxItems)

\* the API's answer: a payload with status 200, or another status
CalResponses ==
    {[kind |-> "ok", result |-> q] : q \in CalPayloads}
    \cup {[kind |-> "status", result |-> <<>>]}

\* an exception inside the try block (timeout, connection or JSON error)
CalException == [kind |-> "exception", result |-> <<>>]

\* the loop over the payload: low importance and other days are skipped, an
\* unparseable date gives date None (-1 here) and time "--:--"
RECURSIVE BuildEvents(_, _)
BuildEvents(items, today) ==
    IF items = <<>> THEN <<>>
    ELSE LET item == Head(items)
             impact == IF item.importance >= 1 THEN "high"
                       ELSE IF item.importance = 0 THEN "medium" ELSE "low"
             rest == BuildEvents(Tail(items), today)
         IN  IF impact = "low" THEN rest
             ELSE IF item.date = "other" THEN rest
             ELSE IF item.date = "bad"
                  THEN <<[id |-> item.id, date |-> -1, time |-> "--:--",
                          impact |-> impact]>> \o rest
             ELSE <<[id |-> item.id, date |-> today, time |-> "09:00",
                     impact |-> impact]>> \o rest

\* (a flag that is never seen, to test CheckCalendarLog)
CheckCalendarLogNever(flag, today, ok) == FALSE

\* check_daily_log of main.py
CheckCalendarLog(flag, today, ok) == dbUp /\ ok /\ flag = today

\* the documents of a set in stream order (by document id)
RECURSIVE CalDocSeq(_)
CalDocSeq(docs) ==
    IF docs = {} THEN <<>>
    ELSE LET m == CHOOSE x \in docs : \A y \in docs : x.id <= y.id
         IN  <<m>> \o CalDocSeq(docs \ {m})

\* load_events_from_db: the events whose date is date_str, sorted by time
\* (every stored time of one day is the same here, so in stream order);
\* [] without a store or on a store error
LoadEventsFromDb(store, date_str, ok) ==
    IF dbUp /\ ok
    THEN LET q == CalDocSeq({x \in store : x.ev.date = date_str})
         IN  [i \in DOMAIN q |-> q[i].ev]
    ELSE <<>>

\* batch.set of events 1..n in turn on documents keyed str(event['id'])
RECURSIVE SetEvents(_, _, _)
SetEvents(store, events, n) ==
    IF n = 0 THEN store
    ELSE LET before == SetEvents(store, events, n - 1)
         IN  {x \in before : x.id # events[n].id}
             \cup {[id |-> events[n].id, ev |-> events[n]]}

\* save_events_to_db: nothing without a store or without events; a store
\* error (after k commits) is caught
SaveEventsToDb(store, events, k) ==
    IF dbUp THEN SetEvents(store, events, Committed(Len(events), k)) ELSE store

LogCal(today, force, fetched, failed, path) ==
    [NoCall EXCEPT !.op = "calendar", !.at = now, !.day = today, !.force = force,
                   !.flagToday = dbUp /\ calFlag = today,
                   !.hadToday = dbUp /\ (\E x \in calStore : x.ev.date = today),
                   !.fetched = fetched, !.failed = failed, !.path = path]

\* (the path chosen by the flag alone, to test CalendarPath)
CalendarPathByFlag(force_refresh, already_checked) ==
    IF already_checked THEN "store" ELSE "api"

\* if not force_refresh: already_checked = check_daily_log(today_str)
CalendarPath(force_refresh, already_checked) ==
    IF ~force_refresh /\ already_checked THEN "store" ELSE "api"

\* get_calendar answered from the store
CalendarFromStore(force_refresh, okCheck, okLoad) ==
    \E today \in {TodaySpStr(now)} :
        /\ endpoint = "calendar"
        /\ CalendarPath(force_refresh, CheckCalendarLog(calFlag, today, okCheck)) = "store"
        /\ ret' = RetList(LoadEventsFromDb(calStore, today, okLoad))
        /\ last' = LogCal(today, force_refresh, FALSE, FALSE, "store")
        /\ UNCHANGED <<now, endpoint, dbUp, workVars, cacheVars, usaVars, calVars,
                       table, filtered, df, prev>>

\* get_calendar going to the API, which answers resp; ks and okLog are the
\* store's behaviour during save_events_to_db and update_daily_log
CalendarFromApi(force_refresh, okCheck, okLoad, resp, ks, okLog) ==
    \E today \in {TodaySpStr(now)} :
        /\ endpoint = "calendar"
        /\ CalendarPath(force_refresh, CheckCalendarLog(calFlag, today, okCheck)) = "api"
        /\ IF resp.kind = "exception"
           THEN /\ ret' = RetList(LoadEventsFromDb(calStore, today, okLoad))
                /\ last' = [LogCal(today, force_refresh, TRUE, TRUE, "apifail") EXCEPT
                                !.checkOk = okCheck]
                /\ UNCHANGED calVars
           ELSE /\ ret' = RetList(BuildEvents(resp.result, today))
                /\ calStore' = SaveEventsToDb(calStore, ret'.rows, ks)
                /\ calFlag' = IF dbUp /\ okLog THEN today ELSE calFlag
                /\ last' = [LogCal(today, force_refresh, TRUE, resp.kind # "ok", "api")
                                EXCEPT !.checkOk = okCheck, !.storeOk = dbUp /\ okLog]
        /\ UNCHANGED <<now, endpoint, dbUp, workVars, cacheVars, usaVars, table, filtered, df, prev>>

----------------------------------------------------------------------------
(* main.py: the ranking endpoints                                          *)

\* str(e) of the exception an upstream provider raised
UpstreamMessage == "str(e)"

\* what the caller of /api/ranking, /api/ranking/acoes/geral and
\* /api/ranking/usa/geral receives when the service returned or raised r:
\* /api/ranking and /api/ranking/usa/geral turn an exception into
\* HTTPException(500, detail=str(e)), /api/ranking/acoes/geral has no handler
Response(ep, r) ==
    IF r.kind # "raise" THEN [status |-> 200, detail |-> "", body |-> r.rows]
    ELSE IF ep \in {"fii", "usa"}
         THEN [status |-> 500, detail |-> UpstreamMessage, body |-> <<>>]
    ELSE [status |-> 500, detail |-> "Internal Server Error", body |-> <<>>]

----------------------------------------------------------------------------
(* The batched write loops: save_ranking_to_db, save_events_to_db and      *)
(* delete_old_ranking, one loop iteration at a time                        *)

BatchFns == {"save_ranking_to_db", "save_events_to_db", "delete_old_ranking"}

\* no loop running: i of the n streamed items are done, ops operations were
\* added to a batch, count of them to the current batch; commits are the
\* committed batches, as ranges lo..hi of operations
NoLoop ==
    [pc |-> "idle", fn |-> "none", n |-> 0, every |-> 0, i |-> 0, ops |-> 0,
     count |-> 0, commits |-> <<>>, error |-> FALSE]

\* the lengths of the input: around every multiple of the limit
LoopSizes ==
    {m \in {k * BATCH_LIMIT + x : k \in 0..MaxBatches, x \in {-1, 0, 1}} : m >= 0}

\* delete_old_ranking leaves the documents dated today alone (here: every
\* l.every-th document of the stream, none when l.every = 0)
Skipped(l, i) == l.fn = "delete_old_ranking" /\ l.every > 0 /\ i % l.every = 0

\* (a commit that forgets to reset the counter, to test BatchCommit)
BatchCommitNoReset(l, ok) ==
    [l EXCEPT !.commits = Append(@, [lo |-> l.ops - l.count + 1, hi |-> l.ops])]

\* batch.commit(); batch = db.batch(); count = 0, or the store raises and the
\* except clause of the function ends it
BatchCommit(l, ok) ==
    IF ok
    THEN [l EXCEPT !.commits = Append(@, [lo |-> l.ops - l.count + 1, hi |-> l.ops]),
                   !.count = 0]
    ELSE [l EXCEPT !.error = TRUE, !.pc = "done"]

\* the function is called with n items: it returns at once when db is None or
\* (the two save functions) when there is nothing to save
LoopStart(fn, n, every) ==
    /\ endpoint = "store"
    /\ loop.pc = "idle"
    /\ loop' = IF ~dbUp \/ (fn # "delete_old_ranking" /\ n = 0)
               THEN [NoLoop EXCEPT !.pc = "done", !.fn = fn, !.n = n]
               ELSE [NoLoop EXCEPT !.pc = "loop", !.fn = fn, !.n = n, !.every = every]
    /\ UNCHANGED <<now, endpoint, dbUp, cacheVars, usaVars, calVars, callVars, thr>>

\* one iteration of the for loop
LoopStep(ok) ==
    /\ loop.pc = "loop"
    /\ loop.i < loop.n
    /\ loop' = IF Skipped(loop, loop.i + 1)
               THEN [loop EXCEPT !.i = @ + 1]
               ELSE IF loop.count + 1 >= BATCH_LIMIT
               THEN BatchCommit([loop EXCEPT !.i = @ + 1, !.ops = @ + 1,
                                             !.count = @ + 1], ok)
               ELSE [loop EXCEPT !.i = @ + 1, !.ops = @ + 1, !.count = @ + 1]
    /\ UNCHANGED <<now, endpoint, dbUp, cacheVars, usaVars, calVars, callVars, thr>>

\* after the loop: if count > 0: batch.commit()
LoopEnd(ok) ==
    /\ loop.pc = "loop"
    /\ loop.i = loop.n
    /\ loop' = IF loop.count > 0
               THEN [BatchCommit(loop, ok) EXCEPT !.pc = "done"]
               ELSE [loop EXCEPT !.pc = "done"]
    /\ UNCHANGED <<now, endpoint, dbUp, cacheVars, usaVars, calVars, callVars, thr>>

----------------------------------------------------------------------------
(* get_relatorio_geral_usa run by several threads of the server's pool,    *)
(* one store operation or memory access at a time                          *)

Threads == 1..MaxThreads

\* a request not started: pc is its position, today its today_str, rows the
\* report it computed (computed), ret what it returned
NoThread == [pc |-> "idle", today |-> 0, rows |-> <<>>, computed |-> FALSE, ret |-> NoRet]

\* step 1: check_daily_log(today_str)
ReqCheck(t) ==
    /\ endpoint = "usa-threads"
    /\ thr[t].pc = "idle"
    /\ thr' = [thr EXCEPT ![t].today = TodaySpStr(now),
                          ![t].pc = IF CheckDailyLog(usaFlag, TodaySpStr(now), TRUE)
                                    THEN "load" ELSE "memory"]
    /\ UNCHANGED <<now, endpoint, dbUp, cacheVars, usaVars, calVars, callVars, loop>>

\* step 1: load_ranking_from_db(today_str), answered from the store if it
\* holds today's records
ReqLoad(t) ==
    /\ thr[t].pc = "load"
    /\ \E data \in {LoadRankingFromDb(usaStore, thr[t].today, TRUE)} :
          IF data # <<>>
          THEN /\ usaMem' = [timestamp |-> now, has |-> TRUE, data |-> data]
               /\ thr' = [thr EXCEPT ![t].pc = "done", ![t].ret = RetList(data)]
          ELSE /\ thr' = [thr EXCEPT ![t].pc = "memory"]
               /\ UNCHANGED usaMem
    /\ UNCHANGED <<now, endpoint, dbUp, cacheVars, usaFlag, usaStore, genLog, calVars,
                   callVars, loop>>

\* step 2: the memory cache
ReqMemory(t) ==
    /\ thr[t].pc = "memory"
    /\ thr' = IF CacheFresh(usaMem, now, CACHE_TIMEOUT_USA)
              THEN [thr EXCEPT ![t].pc = "done", ![t].ret = RetList(usaMem.data)]
              ELSE [thr EXCEPT ![t].pc = "fetch"]
    /\ UNCHANGED <<now, endpoint, dbUp, cacheVars, usaVars, calVars, callVars, loop>>

\* steps 3 and 4: the provider answers snap and the thread scores it
ReqFetch(t, snap) ==
    /\ thr[t].pc = "fetch"
    /\ thr' = IF FiltroUsa(snap) = <<>>
              THEN [thr EXCEPT ![t].pc = "done", ![t].ret = RetList(<<>>)]
              ELSE [thr EXCEPT ![t].pc = "purge", ![t].computed = TRUE,
                               ![t].rows = ExportUsa(ScoreUsa(FiltroUsa(snap)))]
    /\ UNCHANGED <<now, endpoint, dbUp, cacheVars, usaVars, calVars, callVars, loop>>

\* step 5: delete_old_ranking(today_str)
ReqPurge(t) ==
    /\ thr[t].pc = "purge"
    /\ usaStore' = DeleteOldRanking(usaStore, thr[t].today,
                                    NumCommits(Cardinality(usaStore)))
    /\ thr' = [thr EXCEPT ![t].pc = "save"]
    /\ UNCHANGED <<now, endpoint, dbUp, cacheVars, usaMem, usaFlag, genLog, calVars,
                   callVars, loop>>

\* step 5: save_ranking_to_db(records, today_str), one batch
ReqSave(t) ==
    /\ thr[t].pc = "save"
    /\ usaStore' = SaveRankingToDb(usaStore, thr[t].rows, thr[t].today,
                                   NumCommits(Len(thr[t].rows)))
    /\ thr' = [thr EXCEPT ![t].pc = "flag"]
    /\ UNCHANGED <<now, endpoint, dbUp, cacheVars, usaMem, usaFlag, genLog, calVars,
                   callVars, loop>>

\* step 5: update_daily_log(today_str)
ReqFlag(t) ==
    /\ thr[t].pc = "flag"
    /\ usaFlag' = UpdateDailyLog(usaFlag, thr[t].today, TRUE)
    /\ thr' = [thr EXCEPT ![t].pc = "cache"]
    /\ UNCHANGED <<now, endpoint, dbUp, cacheVars, usaMem, usaStore, genLog, calVars,
                   callVars, loop>>

\* the memory cache is set and the report returned
ReqCache(t) ==
    /\ thr[t].pc = "cache"
    /\ usaMem' = [timestamp |-> now, has |-> TRUE, data |-> thr[t].rows]
    /\ thr' = [thr EXCEPT ![t].pc = "done", ![t].ret = RetList(thr[t].rows)]
    /\ UNCHANGED <<now, endpoint, dbUp, cacheVars, usaFlag, usaStore, genLog, calVars,
                   callVars, loop>>

----------------------------------------------------------------------------
(* Specifications                                                          *)

\* the state after import: empty caches, an empty store, no call yet
InitAll(endpoints, stores) ==
    /\ now = 0
    /\ endpoint \in endpoints
    /\ dbUp \in stores
    /\ cacheAcoes = NoCache
    /\ cacheData = NoCache
    /\ usaMem = NoCache
    /\ usaFlag = NoFlag
    /\ usaStore = {}
    /\ genLog = <<>>
    /\ calFlag = NoFlag
    /\ calStore = {}
    /\ table = <<>>
    /\ filtered = <<>>
    /\ df = <<>>
    /\ ret = NoRet
    /\ last = NoCall
    /\ prev = NoCall
    /\ loop = NoLoop
    /\ thr = [t \in Threads |-> NoThread]

\* how long a provider takes to answer: no time, or one clock tick
Durations(ep) == {0, Step(ep)}

\* the provider snapshots of the scoring runs
AcoesSnapshots == {WithTicker(t, "ativo") : t \in Snapshots(AcoesFamilies)}

UsaSnapshots == {WithTicker(t, "ativo") : t \in Snapshots(UsaFamilies)}

FiiSnapshots == {WithTicker(t, "ticker") : t \in Snapshots(FiiFamilies)}

\* the provider snapshots of the cache runs: two quotes of one asset, a
\* two-asset table, and (US) a table without any dividend payer
AcoesQuotes ==
    {WithTicker(t, "ativo") :
        t \in {<<AcoesBase>>, <<[AcoesBase EXCEPT !.preco = 20]>>}}

FiiQuotes ==
    {WithTicker(t, "ticker") : t \in {<<FiiBase>>, <<[FiiBase EXCEPT !.dy = 2]>>}}

UsaQuotes ==
    {WithTicker(t, "ativo") :
        t \in {<<[UsaBase EXCEPT !.dy = 0]>>, <<UsaBase>>,
               <<[UsaBase EXCEPT !.preco = 20]>>}}

\* what a store operation can do: succeed or raise (it is not reached when
\* db is None)
StoreOutcomes == IF dbUp THEN BOOLEAN ELSE {TRUE}

\* the commits that can go through of a batched loop over n operations
CommitOutcomes(n) == IF dbUp THEN 0..NumCommits(n) ELSE {0}

\* Scoring runs: one endpoint, no store, any snapshot of the families
InitRank == InitAll({"acoes", "usa", "fii"}, {FALSE})

NextRank ==
    \/ \E t \in AcoesSnapshots : AcoesMiss(Ok(t), 0)
    \/ \E sort_by \in {"shank", "smart"}, t \in FiiSnapshots : FiiMiss(sort_by, Ok(t), 0)
    \/ \E t \in UsaSnapshots : UsaRecompute(TRUE, TRUE, t, FALSE, 0, 0, 0, TRUE)

SpecRank == InitRank /\ [][NextRank]_vars

\* TTL cache runs: the clock, and a provider that answers or fails
InitTtl == InitAll({"acoes", "fii"}, {FALSE})

NextTtl ==
    \/ Tick
    \/ AcoesHit
    \/ \E resp \in {Failure} \cup {Ok(t) : t \in AcoesQuotes}, dur \in Durations("acoes") :
          AcoesMiss(resp, dur)
    \/ \E sort_by \in {"shank", "smart"} : FiiHit(sort_by)
    \/ \E sort_by \in {"shank", "smart"},
          resp \in {Failure} \cup {Ok(t) : t \in FiiQuotes}, dur \in Durations("fii") :
          FiiMiss(sort_by, resp, dur)

SpecTtl == InitTtl /\ [][NextTtl]_vars

\* Daily cache runs of the US report: the clock, a provider that answers or
\* fails, and a store that is absent, works or raises
InitUsa == InitAll({"usa"}, BOOLEAN)

NextUsa ==
    \/ Tick
    \/ UsaStoreHit(TRUE, TRUE)
    \/ \E ok \in StoreOutcomes : UsaMemoryHit(ok, ok)
    \/ \E ok \in StoreOutcomes, failed \in BOOLEAN, dur \in Durations("usa") :
          UsaRecompute(ok, ok, <<>>, failed, dur, 0, 0, TRUE)
    \/ \E ok \in StoreOutcomes, t \in UsaQuotes, dur \in Durations("usa"),
          kd \in CommitOutcomes(Cardinality(usaStore)), okLog \in StoreOutcomes :
          \E ks \in CommitOutcomes(Len(FiltroUsa(t))) :
             UsaRecompute(ok, ok, t, FALSE, dur, kd, ks, okLog)

SpecUsa == InitUsa /\ [][NextUsa]_vars

\* Calendar runs
InitCal == InitAll({"calendar"}, BOOLEAN)

NextCal ==
    \/ Tick
    \/ \E force_refresh \in BOOLEAN, okLoad \in StoreOutcomes :
          CalendarFromStore(force_refresh, TRUE, okLoad)
    \/ \E force_refresh \in BOOLEAN, okCheck \in StoreOutcomes, okLoad \in StoreOutcomes :
          CalendarFromApi(force_refresh, okCheck, okLoad, CalException, 0, TRUE)
    \/ \E force_refresh \in BOOLEAN, okCheck \in StoreOutcomes, resp \in CalResponses,
          okLog \in StoreOutcomes :
          \E ks \in CommitOutcomes(Len(BuildEvents(resp.result, TodaySpStr(now)))) :
             CalendarFromApi(force_refresh, okCheck, TRUE, resp, ks, okLog)

\* Batch runs: one call of a batched write function, the store raising at
\* any commit
InitBatch == InitAll({"store"}, BOOLEAN)

NextBatch ==
    \/ \E fn \in BatchFns, n \in LoopSizes, every \in {0, 2} :
          LoopStart(fn, n, IF fn = "delete_old_ranking" THEN every ELSE 0)
    \/ \E ok \in BOOLEAN : LoopStep(ok)
    \/ \E ok \in BOOLEAN : LoopEnd(ok)

SpecBatch == InitBatch /\ [][NextBatch]_vars

\* Concurrent runs of the US report: the threads interleave at every store
\* operation; the provider's answer differs from one fetch to the next
InitThreads == InitAll({"usa-threads"}, {TRUE})

ThreadQuotes == UsaQuotes \cup {WithTicker(<<UsaBase, UsaBase>>, "ativo")}

NextThreads ==
    \E t \in Threads :
        \/ ReqCheck(t)
        \/ ReqLoad(t)
        \/ ReqMemory(t)
        \/ \E snap \in ThreadQuotes : ReqFetch(t, snap)
        \/ ReqPurge(t)
        \/ ReqSave(t)
        \/ ReqFlag(t)
        \/ ReqCache(t)

SpecThreads == InitThreads /\ [][NextThreads]_vars

\* Runs of the US report on one day with a table larger than a batch: the
\* store works or raises at any commit of save_ranking_to_db and in
\* update_daily_log
InitSave == InitAll({"usa"}, {TRUE})

NextSave ==
    \/ \E ok \in BOOLEAN : UsaStoreHit(ok, ok)
    \/ \E ok \in BOOLEAN, failed \in BOOLEAN, dur \in Durations("usa") :
          UsaRecompute(ok, ok, <<>>, failed, dur, 0, 0, TRUE)
    \/ \E ok \in BOOLEAN : UsaMemoryHit(ok, ok)
    \/ \E ok \in BOOLEAN, dur \in Durations("usa"), okLog \in BOOLEAN,
          ks \in 0..NumCommits(Len(FullMarket)) :
          UsaRecompute(ok, ok, FullMarket, FALSE, dur,
                       NumCommits(Cardinality(usaStore)), ks, okLog)

SpecSave == InitSave /\ [][NextSave]_vars

\* every run
Init == InitAll({"acoes", "usa", "fii", "calendar"}, BOOLEAN)

Next == NextTtl \/ NextUsa \/ NextCal

SpecCal == InitCal /\ [][NextCal]_vars

Spec == Init /\ [][Next]_vars

----------------------------------------------------------------------------
(* Properties of the scoring (SpecRank)                                    *)

\* a call of a ranking report has returned a list
Scored(ep) == endpoint = ep /\ ret.kind = "list"

\* the (composite score, final rank) columns of the report
RankCols ==
    IF endpoint = "fii"
    THEN {<<"shank_valor", "shank_pos">>, <<"smart_valor", "smart_pos">>}
    ELSE {<<"score_joel", "RANKING_JOEL">>, <<"score_graham", "RANKING_GRAHAM">>,
          <<"score_bazin", "RANKING_BAZIN">>, <<"score_barsi", "RANKING_BARSI">>}

RankOf(i, c) == IF endpoint = "fii" THEN Int2R(df[i][c]) ELSE df[i][c]

\* the ranks of column p[2] are the integers 1..K, K the number of distinct
\* scores in column p[1], and equal scores have equal ranks
DenseRanking(p) ==
    LET ranks == {RankOf(i, p[2]) : i \in DOMAIN df}
        scores == {df[i][p[1]] : i \in DOMAIN df}
    IN  /\ \A r \in ranks : IsInteger(r) /\ r.n >= 1
        /\ {r.n : r \in ranks} = 1..Cardinality(scores)
        /\ \A i, j \in DOMAIN df :
              df[i][p[1]] = df[j][p[1]] => RankOf(i, p[2]) = RankOf(j, p[2])

\* every composite score of column p[1] is a finite number
FiniteScores(p) == \A i \in DOMAIN df : IsFinite(df[i][p[1]])

\* C3: in every ranking report the final ranks of each formula are the
\* positive integers 1..K without gaps, K the number of distinct composite
\* scores, and assets with the same composite score have the same rank
\* (stated for the formulas whose composite scores are all finite)
C3_RanksDense ==
    ret.kind = "list" /\ endpoint \in {"acoes", "usa", "fii"} =>
        \A p \in RankCols : FiniteScores(p) => DenseRanking(p)

\* the scoring inputs of filtered row i that are zero
HasZeroInput(i) ==
    filtered[i].ev_ebit = 0 \/ filtered[i].p_vp = 0 \/ filtered[i].preco = 0

\* C4: a record with ev_ebit = 0, p_vp = 0 or preco = 0 that reaches the
\* scoring of the BR or US report gets a finite score and rank from every formula
C4_ZeroInputsFinite ==
    ret.kind = "list" /\ endpoint \in {"acoes", "usa"} =>
        \A i \in DOMAIN df :
            HasZeroInput(i) =>
                \A p \in RankCols : IsFinite(df[i][p[1]]) /\ IsFinite(df[i][p[2]])

Preferred(i) ==
    IF endpoint = "acoes" THEN filtered[i].setor \in SETORES_BARSI_BEST
    ELSE filtered[i].setor \in SETORES_BEST_EN_MATCH

\* rows i and j have the same scoring inputs, the sector left aside
SameButSector(i, j) ==
    \A c \in DOMAIN filtered[i] \ {"ativo", "ticker", "setor"} :
        filtered[i][c] = filtered[j][c]

\* C5: of two assets of one snapshot with the same scoring inputs but the
\* sector, the one in a preferred sector has 0.8 times the adjusted score of
\* the other, hence a score and a RANKING_BARSI that are not greater
C5_PreferredSectorNotWorse ==
    ret.kind = "list" /\ endpoint \in {"acoes", "usa"} =>
        \A i, j \in DOMAIN df :
            Preferred(i) /\ ~Preferred(j) /\ SameButSector(i, j) =>
                /\ df[i].score_barsi = RMul(df[j].score_barsi, R(4, 5))
                /\ RLe(df[i].score_barsi, df[j].score_barsi)
                /\ RLe(df[i].RANKING_BARSI, df[j].RANKING_BARSI)

\* a preferred and a non-preferred twin were scored together with a third asset
C5_Witness ==
    /\ Scored("acoes")
    /\ Len(df) = 3
    /\ \E i, j \in DOMAIN df :
          /\ Preferred(i) /\ ~Preferred(j) /\ SameButSector(i, j)
          /\ RLt(df[i].RANKING_BARSI, df[j].RANKING_BARSI)

\* C6: re-applying the eligibility filter of the FII ranking or of the BR
\* report to the table it produced changes nothing
C6_FilterIdempotent ==
    /\ Scored("acoes") => FiltroAcoes(filtered) = filtered
    /\ Scored("fii") => FiltroFii(filtered) = filtered

\* the filter removed some rows of the snapshot and kept others
C6_Witness ==
    /\ Scored("acoes")
    /\ filtered # <<>>
    /\ Len(filtered) < Len(table)

\* A dominates B in the inputs of the sector-weighted yield formula, with the
\* same preference status and debt ratio
DominatesBarsi(a, b) ==
    /\ Preferred(a) = Preferred(b)
    /\ filtered[a].div_liq_patrimonio = filtered[b].div_liq_patrimonio
    /\ filtered[a].dy > filtered[b].dy
    /\ filtered[a].p_vp < filtered[b].p_vp
    /\ filtered[a].roe > filtered[b].roe

\* C7: in the BR report, an asset with strictly higher yield, lower
\* price-to-book and higher ROE than another of the same preference status
\* and debt ratio has the strictly smaller RANKING_BARSI, whatever else is
\* in the snapshot
C7_DominantRanksAhead ==
    Scored("acoes") =>
        \A a, b \in DOMAIN df :
            DominatesBarsi(a, b) => RLt(df[a].RANKING_BARSI, df[b].RANKING_BARSI)

\* a dominating pair was scored together with a third asset that is ahead of
\* the dominated one
C7_Witness ==
    /\ Scored("acoes")
    /\ \E a, b, c \in DOMAIN df :
          /\ DominatesBarsi(a, b)
          /\ c \notin {a, b}
          /\ RLt(df[c].RANKING_BARSI, df[b].RANKING_BARSI)

----------------------------------------------------------------------------
(* Properties of the TTL caches (SpecTtl)                                  *)

\* the last call found a snapshot cached less than CACHE_TIMEOUT ago
WithinTtl ==
    /\ last.op \in {"acoes", "fii"}
    /\ last.snapAt >= 0
    /\ last.at < last.snapAt + Timeout(last.op)

\* the TTL cache of the endpoint
CacheOf(ep) == IF ep = "acoes" THEN cacheAcoes ELSE cacheData

\* C9: a call made less than CACHE_TIMEOUT (3600 s) after a snapshot was
\* cached performs no upstream fetch and works on the cached snapshot, which
\* stays in the cache
C9_NoFetchBeforeExpiry ==
    WithinTtl =>
        /\ ~last.fetched
        /\ table = last.snap
        /\ CacheOf(last.op) = [timestamp |-> last.snapAt, has |-> TRUE, data |-> last.snap]

\* a call was served from a snapshot cached earlier, one tick before its expiry
C9_Witness ==
    /\ WithinTtl
    /\ last.at > last.snapAt
    /\ last.at + Step(last.op) >= last.snapAt + Timeout(last.op)
    /\ ret.kind = "list" /\ ret.rows # <<>>

----------------------------------------------------------------------------
(* Properties of the daily cache of the US report (SpecUsa)                *)

\* the last two calls were made on the same Sao Paulo day
TwoCallsSameDay == prev.op = "usa" /\ last.op = "usa" /\ prev.day = last.day

C2_FallbackToPriorReport ==
    last.op = "usa" /\ last.fetched /\ last.failed /\ last.prior # <<>> =>
        ret = RetList(last.prior)

\* C8: no Sao Paulo day sees two completed generations of the US report
C8_OneGenerationPerDay ==
    \A i, j \in DOMAIN genLog : i # j => genLog[i] # genLog[j]

\* the report was generated on two different days, and the last call, on the
\* day of the second generation, was served without a new one
C8_Witness ==
    /\ Len(genLog) = 2
    /\ last.op = "usa"
    /\ last.day = genLog[2]
    /\ last.path \in {"store", "memory"}

----------------------------------------------------------------------------
(* Properties of the calendar (SpecCal)                                    *)

\* C10: a call of get_calendar with force_refresh = true always performs the
\* upstream fetch, whatever the daily flag and the stored events
C10_ForcedRefreshFetches ==
    last.op = "calendar" /\ last.force => last.fetched

\* a forced call found the flag at today and events of today in the store,
\* and fetched
C10_Witness ==
    /\ last.op = "calendar"
    /\ last.force
    /\ last.flagToday
    /\ last.hadToday
    /\ last.fetched

----------------------------------------------------------------------------
(* Properties of the US report's memory step and persistence (SpecUsa)     *)

\* the memory cache was populated and younger than CACHE_TIMEOUT on entry
MemoryFreshOnEntry ==
    last.op = "usa" /\ last.snapAt >= 0 /\ last.at - last.snapAt < CACHE_TIMEOUT_USA

\* C11: a request of the US report that arrives while the memory cache is
\* populated and younger than CACHE_TIMEOUT is served from memory without any
\* I/O: it reads nothing from the store and does not call the provider.
C11_MemoryHitNoIO ==
    MemoryFreshOnEntry =>
        /\ last.path = "memory"
        /\ ~last.fetched
        /\ last.storeReads = 0

\* the documents a report leaves in ranking_usa when it is saved on day d
DocsOf(rows, d) == {[date |-> d, rec |-> rows[i]] : i \in DOMAIN rows}

----------------------------------------------------------------------------
(* Properties of the error paths                                           *)

\* C13: no ranking endpoint propagates an upstream exception or returns its
\* message to the caller: after an upstream failure the response carries cached
\* or fallback data or an empty payload, never the text of the exception.
C13_NoUpstreamMessage ==
    last.op \in {"acoes", "fii", "usa"} =>
        /\ ret.kind # "raise"
        /\ Response(endpoint, ret).detail # UpstreamMessage

\* no row of the snapshot the last call worked on is eligible
AllFilteredOut ==
    /\ last.op # "none"
    /\ table # <<>>
    /\ \A i \in DOMAIN table :
          CASE endpoint = "acoes" -> ~PassaFiltroAcoes(table[i])
            [] endpoint = "fii" -> ~PassaFiltroFii(table[i])
            [] endpoint = "usa" -> ~PassaFiltroUsa(table[i])
            [] OTHER -> FALSE

\* C14: when the eligibility filters remove every row of the snapshot,
\* calculate_ranking, get_relatorio_geral_acoes and get_relatorio_geral_usa
\* return an empty list and raise no error.
C14_EmptyReportWhenNoneEligible ==
    AllFilteredOut => ret = RetList(<<>>) /\ Response(endpoint, ret).status = 200

\* each report has returned [] for a snapshot of several ineligible rows
C14_Witness ==
    /\ AllFilteredOut
    /\ Len(table) = MaxAssets
    /\ ret = RetList(<<>>)
    /\ endpoint = "acoes"

\* C15: when db is None the US report degrades to memory-only caching: a call
\* attempts no store operation, a recompute returns the report the scoring
\* gives for the snapshot (the same with or without a store) and caches it in
\* memory, and a call within CACHE_TIMEOUT of that is served from memory
\* without a provider fetch.
C15_MemoryOnlyWithoutStore ==
    /\ (last.op = "usa" /\ last.path = "compute") =>
           ret = RetList(ExportUsa(ScoreUsa(FiltroUsa(table))))
    /\ (last.op = "usa" /\ ~dbUp) =>
           /\ last.storeReads = 0 /\ last.storeWrites = 0
           /\ usaStore = {} /\ usaFlag = NoFlag
           /\ last.path = "compute" =>
                  /\ usaMem.has /\ usaMem.data = ret.rows
                  /\ usaMem.timestamp >= last.at
           /\ MemoryFreshOnEntry =>
                  /\ last.path = "memory" /\ ~last.fetched
                  /\ ret = RetList(last.snap)

\* without a store, a report was computed and the next call got it from memory
C15_Witness ==
    /\ ~dbUp
    /\ prev.op = "usa" /\ prev.path = "compute"
    /\ last.op = "usa" /\ last.path = "memory" /\ last.at > prev.at
    /\ ret.rows # <<>>

----------------------------------------------------------------------------
(* Properties of the batched write loops (SpecBatch)                       *)

\* the operations the loop has to write: its items, less the skipped ones
LoopTotal == Cardinality({i \in 1..loop.n : ~Skipped(loop, i)})

\* C16: save_ranking_to_db, save_events_to_db and delete_old_ranking never
\* commit a batch of more than 400 operations, and when they return without a
\* store error every input record (every document not dated today) is in
\* exactly one committed batch, whatever the number of records, the exact
\* multiples of 400 included.
C16_BatchesBoundedAndComplete ==
    /\ loop.count <= BATCH_LIMIT
    /\ \A k \in DOMAIN loop.commits :
          /\ loop.commits[k].lo <= loop.commits[k].hi
          /\ loop.commits[k].hi - loop.commits[k].lo + 1 <= BATCH_LIMIT
    /\ (loop.pc = "done" /\ dbUp /\ ~loop.error) =>
          /\ loop.ops = LoopTotal
          /\ \A r \in 1..LoopTotal :
                Cardinality({k \in DOMAIN loop.commits :
                                loop.commits[k].lo <= r /\ r <= loop.commits[k].hi}) = 1
          /\ Len(loop.commits) = NumCommits(LoopTotal)
    /\ (loop.pc = "done" /\ dbUp /\ loop.error) =>
          /\ Len(loop.commits) < NumCommits(LoopTotal)
          /\ Len(loop.commits) * BATCH_LIMIT = Committed(LoopTotal, Len(loop.commits))

\* a save of exactly two full batches has returned
C16_Witness ==
    /\ loop.pc = "done" /\ ~loop.error
    /\ loop.fn = "save_ranking_to_db"
    /\ loop.n = 2 * BATCH_LIMIT
    /\ loop.commits = <<[lo |-> 1, hi |-> BATCH_LIMIT],
                        [lo |-> BATCH_LIMIT + 1, hi |-> 2 * BATCH_LIMIT]>>

----------------------------------------------------------------------------
(* Properties of concurrent requests of the US report (SpecThreads)        *)

\* C17: when requests of the US report run concurrently on a stale cache and
\* all have finished, the records dated today in the store, the flag and the
\* memory cache are those of one of the computed reports, complete and
\* unmixed, and the flag is set.
C17_OneCompleteReport ==
    ((\A t \in Threads : thr[t].pc = "done") /\ (\E t \in Threads : thr[t].computed)) =>
        \E t \in Threads :
            /\ thr[t].computed
            /\ {x \in usaStore : x.date = thr[t].today} = DocsOf(thr[t].rows, thr[t].today)
            /\ usaFlag = thr[t].today
            /\ usaMem.has /\ usaMem.data = thr[t].rows

----------------------------------------------------------------------------
(* Properties of the calendar's daily flag (SpecCal)                       *)

----------------------------------------------------------------------------
(* Properties of the intrinsic-value and value+quality formulas (SpecRank) *)

\* valor_intrinseco of row i of the BR shares report
ValorIntrinseco(i) == CalcGrahamAcoes(filtered[i].lpa, filtered[i].cagr_lucros_5a)

\* margem_seg.rank(ascending=False) of the BR shares report
RankMargem == RankAverage([i \in DOMAIN df |-> df[i].margem_seg], FALSE)

\* C19: an asset whose intrinsic value is not positive gets the sentinel margin
\* of safety -10, and no asset with a positive intrinsic value has a worse
\* margin-of-safety rank than an asset holding the sentinel.
C19_SentinelRanksLast ==
    Scored("acoes") =>
        \A i, j \in DOMAIN df :
            (RLt(Int2R(0), ValorIntrinseco(i)) /\ ~RLt(Int2R(0), ValorIntrinseco(j))) =>
                /\ df[j].margem_seg = Int2R(-10)
                /\ RLe(RankMargem[i], RankMargem[j])

\* the sectors the value+quality formula pushes to the bottom
PenalizedSectors == {"Financeiro", "Bancario", "Seguros", "Energia", "Utilidade Publica"}

Penalized(i) == filtered[i].setor \in PenalizedSectors

\* rank(earning yield desc) + rank(ROIC desc), both dense, over all eligible rows
BaseJoel ==
    ColAdd(RankDense([i \in DOMAIN filtered |-> EarningYield(filtered[i].ev_ebit)], FALSE),
           RankDense([i \in DOMAIN filtered |-> Int2R(filtered[i].roic)], FALSE))

\* C20: in the value+quality formula of the BR shares report every eligible
\* asset of a penalized sector stays in the output with a RANKING_JOEL strictly
\* greater than that of every non-penalized asset, within each group the order
\* is that of rank(earning yield desc) + rank(ROIC desc), and RANKING_JOEL is
\* the dense rank of the penalized composite, ascending.
C20_PenalizedSectorsLast ==
    Scored("acoes") =>
        /\ Len(ret.rows) = Len(filtered)
        /\ \A i \in DOMAIN filtered :
              /\ ret.rows[i].ativo = filtered[i].ativo
              /\ ret.rows[i].RANKING_JOEL = df[i].RANKING_JOEL
              /\ df[i].score_joel =
                    RAdd(BaseJoel[i], Int2R(IF Penalized(i) THEN PENALTY ELSE 0))
              /\ df[i].RANKING_JOEL =
                    Int2R(1 + Cardinality({df[j].score_joel : j \in
                             {k \in DOMAIN df : RLt(df[k].score_joel, df[i].score_joel)}}))
        /\ \A i, j \in DOMAIN filtered :
              /\ (Penalized(i) /\ ~Penalized(j)) =>
                    RLt(df[j].RANKING_JOEL, df[i].RANKING_JOEL)
              /\ (Penalized(i) = Penalized(j)) =>
                    /\ RLt(BaseJoel[i], BaseJoel[j]) <=>
                           RLt(df[i].RANKING_JOEL, df[j].RANKING_JOEL)
                    /\ (BaseJoel[i] = BaseJoel[j]) <=>
                           (df[i].RANKING_JOEL = df[j].RANKING_JOEL)

\* a penalized asset with the better earning yield and ROIC ranks behind two
\* other assets that tie
C20_Witness ==
    /\ Scored("acoes")
    /\ \E i, j, k \in DOMAIN filtered :
          /\ Penalized(i) /\ ~Penalized(j) /\ ~Penalized(k) /\ j # k
          /\ RLt(BaseJoel[i], BaseJoel[j])
          /\ df[j].RANKING_JOEL = df[k].RANKING_JOEL
          /\ df[i].RANKING_JOEL = Int2R(2)

----------------------------------------------------------------------------
(* Properties of the eligibility filter's output (SpecRank)                *)

\* the rows the FII ranking and the BR shares report may return
EligibleFii(r) ==
    /\ r.liquidez >= 200000 /\ r.pvp > 0 /\ r.dy > 0
    /\ r.setor \notin SETORES_DESENVOLVIMENTO

EligibleAcoes(r) == r.liq_media_diaria >= 200000 /\ r.p_l > 0 /\ r.dy > 0

\* C21: every record returned by calculate_ranking has liquidez >= 200000,
\* pvp > 0, dy > 0 and a segment without "Desenvolvimento", every record
\* returned by get_relatorio_geral_acoes has liq_media_diaria >= 200000,
\* p_l > 0 and dy > 0, and the ranks are those of exactly these rows: the
\* report is the scoring of the snapshot without its ineligible rows.
C21_OnlyEligibleRowsRanked ==
    /\ Scored("fii") =>
          /\ \A i \in DOMAIN ret.rows : EligibleFii(ret.rows[i])
          /\ \E sort_by \in {"shank", "smart"} :
                ret.rows = ExportFii(ScoreFii(SelectSeq(table, EligibleFii), sort_by))
    /\ Scored("acoes") =>
          /\ \A i \in DOMAIN ret.rows :
                \E k \in DOMAIN table :
                    table[k].ativo = ret.rows[i].ativo /\ EligibleAcoes(table[k])
          /\ ret.rows = Export(ScoreAcoes(SelectSeq(table, EligibleAcoes)))

\* a FII ranking of two funds was returned for a snapshot of three
C21_Witness ==
    /\ Scored("fii")
    /\ Len(table) = 3 /\ Len(ret.rows) = 2
    /\ \E k \in DOMAIN table : table[k].setor \in SETORES_DESENVOLVIMENTO

----------------------------------------------------------------------------
(* Properties of the BR shares report's fallback (SpecTtl)                 *)

\* C22: when the upstream fetch of fetch_fundamentus_acoes fails, the call
\* works on the last snapshot fetched, whatever its age, and leaves the cache
\* entry (timestamp and data) as it was; without any snapshot it works on an
\* empty table and get_relatorio_geral_acoes returns []; it never raises.
C22_FallbackToLastSnapshot ==
    (last.op = "acoes" /\ last.failed) =>
        /\ ret.kind = "list"
        /\ last.path = "fallback"
        /\ table = last.snap
        /\ ret = RetList(Export(ScoreAcoes(FiltroAcoes(last.snap))))
        /\ IF last.snapAt >= 0
           THEN cacheAcoes = [timestamp |-> last.snapAt, has |-> TRUE, data |-> last.snap]
           ELSE cacheAcoes = NoCache /\ ret = RetList(<<>>)

\* a failed fetch was answered with a snapshot older than CACHE_TIMEOUT
C22_Witness ==
    /\ last.op = "acoes" /\ last.failed
    /\ last.snapAt >= 0
    /\ last.at - last.snapAt >= CACHE_TIMEOUT_ACOES
    /\ ret.kind = "list" /\ ret.rows # <<>>

----------------------------------------------------------------------------
(* Properties of a partly saved report (SpecSave)                          *)

\* the assets of a list of records
Assets(rows) == {rows[i].ativo : i \in DOMAIN rows}

\* C23: whenever the US report is served from the store because the daily
\* flag equals today, it contains every asset of the report that was computed
\* for today: the flag is never at today while the store holds only part of
\* that report.
C23_StoreReportComplete ==
    (/\ last.op = "usa" /\ last.path = "store"
     /\ genLog # <<>> /\ genLog[Len(genLog)] = last.day) =>
        Assets(df) \subseteq Assets(ret.rows)


\* C24: every report get_relatorio_geral_usa returns on day D (from the store,
\* from the memory cache or freshly computed) was generated on day D: the day
\* of the latest generation is the day of the request
GeneratedOn == IF genLog = <<>> THEN NoFlag ELSE genLog[Len(genLog)]

C24_ReportGeneratedToday ==
    (last.op = "usa" /\ last.path \in {"store", "memory", "compute"}) =>
        GeneratedOn = last.day

----------------------------------------------------------------------------
(* Properties of the calendar's store round trip (SpecCal)                 *)

\* what a later non-forced request of the same day returns once the flag is
\* at that day: the events load_events_from_db finds
LaterSameDay == LoadEventsFromDb(calStore, last.day, TRUE)

\* the request called the API, every event it returned was saved and the flag
\* was set to the day of the request
ApiAnswerSaved ==
    /\ last.op = "calendar" /\ last.path = "api"
    /\ dbUp /\ calFlag = last.day
    /\ \A i \in DOMAIN ret.rows :
          [id |-> ret.rows[i].id, ev |-> ret.rows[i]] \in calStore

\* C25: the events get_calendar returns from the request that calls the API
\* are, as a set, the events later non-forced requests of the same day return
\* from the store: every returned event is loaded again by the query
\* date == today
C25_StoreReturnsApiAnswer ==
    ApiAnswerSaved => Range(LaterSameDay) = Range(ret.rows)

----------------------------------------------------------------------------
(* Properties of an empty provider answer (SpecUsa)                        *)

\* the provider's table has no asset with dy > 0 (it may have no asset)
NoDividendPayer(t) == \A i \in DOMAIN t : ~(t[i].dy > 0)

\* the step is a request of the US report that asked the provider
AskedProvider == prev' = last /\ last'.op = "usa" /\ last'.fetched

\* C26: when the provider yields an empty table or no asset with dy > 0,
\* get_relatorio_geral_usa returns [] and leaves the store's records, the
\* daily flag and the memory cache as they were; the empty outcome is not
\* cached: the request after it is never answered from the memory cache, it
\* asks the provider again unless the store already holds today's report
\* under today's flag
C26_EmptyOutcomeChangesNothing ==
    [][/\ (AskedProvider /\ NoDividendPayer(table')) =>
             /\ last'.path = "empty"
             /\ ret' = RetList(<<>>)
             /\ usaStore' = usaStore
             /\ usaFlag' = usaFlag
             /\ usaMem' = usaMem
             /\ genLog' = genLog
       /\ (last.op = "usa" /\ last.path = "empty" /\ prev' = last /\ last'.op = "usa") =>
             \/ last'.fetched
             \/ last'.path = "store" /\ last'.flagToday /\ last'.hadToday]_vars

\* the provider had no dividend payer while the store held the report of an
\* earlier day and the memory cache an expired one, and the request after it
\* computed a report from a new provider answer
C26_Witness ==
    /\ dbUp
    /\ prev.op = "usa" /\ prev.path = "empty"
    /\ prev.prior # <<>> /\ prev.snapAt >= 0 /\ prev.snap # <<>>
    /\ last.op = "usa" /\ last.path = "compute"
    /\ ret.rows # <<>>

====
